---- MODULE Spec2Model ----
(***************************************************************************)
(* Tic Tac Toe engine: Player, Gameboard and Game of                       *)
(* "Tic Tac Toe/js/models".  A Game owns one Gameboard and two Players;    *)
(* the caller drives it with startGame, makeMove, restartGame, resetGame.  *)
(***************************************************************************)
EXTENDS Integers, Sequences, FiniteSets

VARIABLES
    board,              \* Gameboard._board: 9 cells, "" when empty
    players,            \* Game._players: slot 0 and slot 1
    currentPlayerIndex, \* Game._currentPlayerIndex
    gameActive,         \* Game._gameActive
    gameHistory,        \* Game._gameHistory
    startTime,          \* Game._startTime (Null or Some(t))
    endTime,            \* Game._endTime   (Null or Some(t))
    clock,              \* the value the next `new Date()` yields
    call,               \* the last call made by the caller
    result,             \* what that call returned or threw
    listeners,          \* EventManager._listeners: event -> array of listeners
    closures,           \* per onceCallback closure that once made: its number of runs
    invoked,            \* the callbacks the last call ran, in the order they ran
    statistics,         \* GameController._statistics
    controllerHistory   \* GameController._gameHistory

vars == <<board, players, currentPlayerIndex, gameActive, gameHistory,
          startTime, endTime, clock, call, result,
          listeners, closures, invoked, statistics, controllerHistory>>

----------------------------------------------------------------------------
(* Bounds of the exploration *)

\* how many integers below 0 and above 8 the caller may pass as an index
OutOfRange == 1
\* number of `new Date()` readings available to a behaviour
MaxClock == 14
\* the caller picks the first FreeMoves cells of a game freely; later cells
\* are taken in ascending order (rejected calls stay unrestricted)
FreeMoves == 1
\* besides, the caller may replay the game of the integration test
\* (X: 0, O: 3, X: 1, O: 4, X: 2)
ScriptedGames == {<<0, 3, 1, 4, 2>>}

----------------------------------------------------------------------------
(* JavaScript values *)

\* null / undefined, and a present value
Null == <<>>
Some(v) == <<v>>

\* a number argument: an integer v, or the non-integer v + 0.5
Num(v) == [isInteger |-> TRUE, v |-> v]
Frac(v) == [isInteger |-> FALSE, v |-> v]

IndexArgs == {Num(v) : v \in (0 - OutOfRange)..(8 + OutOfRange)} \cup {Frac(2)}

Cells == 0..8
EmptyBoard == [i \in Cells |-> ""]

Alice(symbol) == [name |-> "Alice", symbol |-> symbol]
Bob(symbol) == [name |-> "Bob", symbol |-> symbol]
MkPlayers(p1, p2) == [k \in 0..1 |-> IF k = 0 THEN p1 ELSE p2]
\* the pairings a Game is constructed with
PlayerPairs == {MkPlayers(Alice("X"), Bob("O")), MkPlayers(Alice("O"), Bob("X"))}

----------------------------------------------------------------------------
(* Gameboard *)

\* faulty variant: the columns listed before the rows
WinningCombinationsColumnsFirst ==
    << <<0, 3, 6>>, <<1, 4, 7>>, <<2, 5, 8>>,
       <<0, 1, 2>>, <<3, 4, 5>>, <<6, 7, 8>>,
       <<0, 4, 8>>, <<2, 4, 6>> >>

\* faulty variant: a typo in the first diagonal
WinningCombinationsTypo ==
    << <<0, 1, 2>>, <<3, 4, 5>>, <<6, 7, 8>>,
       <<0, 3, 6>>, <<1, 4, 7>>, <<2, 5, 8>>,
       <<1, 4, 8>>, <<2, 4, 6>> >>

WinningCombinations ==
    << <<0, 1, 2>>, <<3, 4, 5>>, <<6, 7, 8>>,
       <<0, 3, 6>>, <<1, 4, 7>>, <<2, 5, 8>>,
       <<0, 4, 8>>, <<2, 4, 6>> >>

\* faulty variant: the Number.isInteger test left out
IsValidIndexAnyNumber(index) == index.v >= 0 /\ index.v <= 8

IsValidIndex(index) == index.isInteger /\ index.v >= 0 /\ index.v <= 8

\* faulty variant: the truthiness test on the first cell left out
LineMatchesUntruthy(b, combination) ==
    /\ b[combination[1]] = b[combination[2]]
    /\ b[combination[1]] = b[combination[3]]

\* the condition of the scan's if: three equal, truthy cells
LineMatches(b, combination) ==
    /\ b[combination[1]] # ""
    /\ b[combination[1]] = b[combination[2]]
    /\ b[combination[1]] = b[combination[3]]

\* the for..of scan shared by checkWinner and getWinningCombination:
\* position in WinningCombinations of the first matching triple, 0 if none
RECURSIVE ScanFrom(_, _)
ScanFrom(b, k) ==
    IF k > Len(WinningCombinations) THEN 0
    ELSE IF LineMatches(b, WinningCombinations[k]) THEN k
    ELSE ScanFrom(b, k + 1)

CheckWinner(b) ==
    LET k == ScanFrom(b, 1)
    IN  IF k = 0 THEN Null ELSE Some(b[WinningCombinations[k][1]])

GetWinningCombination(b) ==
    LET k == ScanFrom(b, 1)
    IN  IF k = 0 THEN Null ELSE Some(WinningCombinations[k])

IsFull(b) == \A i \in Cells : b[i] # ""

RECURSIVE EmptyFrom(_, _)
EmptyFrom(b, i) ==
    IF i > 8 THEN <<>>
    ELSE IF b[i] = "" THEN <<i>> \o EmptyFrom(b, i + 1)
    ELSE EmptyFrom(b, i + 1)

GetEmptyPositions(b) == EmptyFrom(b, 0)

\* Gameboard.reset
Reset == [i \in Cells |-> ""]

\* faulty variant: writes the cell without testing that it is empty
SetMarkOverwrite(b, index, symbol) ==
    IF ~IsValidIndex(index)
    THEN [thrown |-> "Invalid board index", ok |-> FALSE, board |-> b]
    ELSE IF symbol \notin {"X", "O"}
    THEN [thrown |-> "Invalid symbol. Must be \"X\" or \"O\"", ok |-> FALSE, board |-> b]
    ELSE [thrown |-> "", ok |-> TRUE, board |-> [b EXCEPT ![index.v] = symbol]]

\* setMark: throws, or returns true/false with the board it leaves
SetMark(b, index, symbol) ==
    IF ~IsValidIndex(index)
    THEN [thrown |-> "Invalid board index", ok |-> FALSE, board |-> b]
    ELSE IF symbol \notin {"X", "O"}
    THEN [thrown |-> "Invalid symbol. Must be \"X\" or \"O\"", ok |-> FALSE, board |-> b]
    ELSE IF b[index.v] = ""
    THEN [thrown |-> "", ok |-> TRUE, board |-> [b EXCEPT ![index.v] = symbol]]
    ELSE [thrown |-> "", ok |-> FALSE, board |-> b]

BoardGameState(b) ==
    [board |-> b,
     winner |-> CheckWinner(b),
     isFull |-> IsFull(b),
     isGameOver |-> (CheckWinner(b) # Null \/ IsFull(b)),
     winningCombination |-> GetWinningCombination(b)]

----------------------------------------------------------------------------
(* Game *)

\* faulty variant: the winner is always taken from slot 0
FindPlayerFirstSlot(ps, symbol) == Some(ps[0])

\* Array.prototype.find over the two slots
FindPlayer(ps, symbol) ==
    IF ps[0].symbol = symbol THEN Some(ps[0])
    ELSE IF ps[1].symbol = symbol THEN Some(ps[1])
    ELSE Null

GameStateOf(b, ps, cpi, active, history, st, et) ==
    LET boardState == BoardGameState(b)
        winner == boardState.winner
    IN  [board |-> boardState.board,
         winner |-> winner,
         isFull |-> boardState.isFull,
         isGameOver |-> boardState.isGameOver,
         winningCombination |-> boardState.winningCombination,
         currentPlayer |-> ps[cpi],
         players |-> ps,
         isGameActive |-> active,
         winningPlayer |-> IF winner # Null THEN FindPlayer(ps, winner[1]) ELSE Null,
         gameHistory |-> history,
         startTime |-> st,
         endTime |-> et,
         gameDuration |-> IF et # Null /\ st # Null THEN Some(et[1] - st[1]) ELSE Null]

GetGameState ==
    GameStateOf(board, players, currentPlayerIndex, gameActive, gameHistory,
                startTime, endTime)

\* faulty variant: the player of slot 0, whoever is to move
GetCurrentPlayerFirstSlot == players[0]

GetCurrentPlayer == players[currentPlayerIndex]

\* faulty variant: the _gameActive guard left out
AlwaysActive == TRUE

\* the flag makeMove tests first
IsGameActive == gameActive

\* faulty variant: the turn is not switched
NextPlayerIndexSame(cpi) == cpi

\* makeMove's switch to the next player
NextPlayerIndex(cpi) == IF cpi = 0 THEN 1 ELSE 0

\* faulty variant: a full board does not end the game
IsGameOverWinOnly(winner, isFull) == winner # Null

\* faulty variant: a win does not end the game
IsGameOverFullOnly(winner, isFull) == isFull

\* makeMove's end condition: `winner || isFull`
IsGameOver(winner, isFull) == winner # Null \/ isFull

\* faulty variant: the move is put in front of the history
RecordMoveInFront(history, player, index, timestamp) ==
    <<[player |-> player.name,
       symbol |-> player.symbol,
       position |-> index.v,
       timestamp |-> timestamp]>> \o history

\* faulty variant: the move is not pushed
RecordMoveDropped(history, player, index, timestamp) == history

\* makeMove's push onto the history
RecordMove(history, player, index, timestamp) ==
    Append(history, [player |-> player.name,
                     symbol |-> player.symbol,
                     position |-> index.v,
                     timestamp |-> timestamp])

\* shapes of `result`
NoResult == [thrown |-> "", returned |-> FALSE, success |-> FALSE,
             error |-> "", gameState |-> Null]
Returned(success, error, gameState) ==
    [thrown |-> "", returned |-> TRUE, success |-> success,
     error |-> error, gameState |-> Some(gameState)]
ReturnedVoid == [thrown |-> "", returned |-> TRUE, success |-> FALSE,
                 error |-> "", gameState |-> Null]
Thrown(message) == [thrown |-> message, returned |-> FALSE, success |-> FALSE,
                    error |-> "", gameState |-> Null]

ReturnedValue(value) ==
    [thrown |-> "", returned |-> TRUE, success |-> FALSE,
     error |-> "", gameState |-> Null, value |-> value]

Called(op, index) == [op |-> op, index |-> index]
NoIndex == Frac(0 - 1)

\* the caller's choice of cells (see FreeMoves)
FollowsScript(index) ==
    \E s \in ScriptedGames :
        /\ Len(gameHistory) < Len(s)
        /\ \A k \in 1..Len(gameHistory) : gameHistory[k].position = s[k]
        /\ s[Len(gameHistory) + 1] = index.v

CallerMay(index) ==
    IF ~gameActive \/ ~IsValidIndex(index) THEN TRUE
    ELSE IF board[index.v] # "" THEN TRUE
    ELSE \/ Len(gameHistory) < FreeMoves
         \/ index.v = GetEmptyPositions(board)[1]
         \/ FollowsScript(index)

\* faulty variant: the current player is not set back to slot 0
StartGameKeepsTurn ==
    /\ clock + 1 <= MaxClock
    /\ gameActive' = TRUE
    /\ gameHistory' = <<>>
    /\ startTime' = Some(clock)
    /\ endTime' = Null
    /\ board' = Reset
    /\ clock' = clock + 1
    /\ call' = Called("startGame", NoIndex)
    /\ result' = ReturnedVoid
    /\ UNCHANGED <<players, currentPlayerIndex>>

StartGame ==
    /\ clock + 1 <= MaxClock
    /\ gameActive' = TRUE
    /\ currentPlayerIndex' = 0
    /\ gameHistory' = <<>>
    /\ startTime' = Some(clock)
    /\ endTime' = Null
    /\ board' = Reset
    /\ clock' = clock + 1
    /\ call' = Called("startGame", NoIndex)
    /\ result' = ReturnedVoid
    /\ UNCHANGED players

\* the body of makeMove, for any index the caller passes
ApplyMove(index) ==
    /\ call' = Called("makeMove", index)
    /\ UNCHANGED players
    /\ IF ~IsGameActive
       THEN /\ result' = Returned(FALSE, "Game is not active", GetGameState)
            /\ UNCHANGED <<board, currentPlayerIndex, gameActive, gameHistory,
                           startTime, endTime, clock>>
       ELSE LET currentPlayer == GetCurrentPlayer
                mark == SetMark(board, index, currentPlayer.symbol)
            IN  IF mark.thrown # ""
                THEN /\ result' = Thrown(mark.thrown)
                     /\ UNCHANGED <<board, currentPlayerIndex, gameActive,
                                    gameHistory, startTime, endTime, clock>>
                ELSE IF ~mark.ok
                THEN /\ result' = Returned(FALSE, "Position already occupied",
                                           GetGameState)
                     /\ UNCHANGED <<board, currentPlayerIndex, gameActive,
                                    gameHistory, startTime, endTime, clock>>
                ELSE LET history == RecordMove(gameHistory, currentPlayer,
                                                index, clock)
                         winner == CheckWinner(mark.board)
                         isFull == IsFull(mark.board)
                         over == IsGameOver(winner, isFull)
                         active == IF over THEN FALSE ELSE gameActive
                         et == IF over THEN Some(clock + 1) ELSE endTime
                         cpi == IF over THEN currentPlayerIndex
                                ELSE NextPlayerIndex(currentPlayerIndex)
                     IN  /\ clock + 2 <= MaxClock
                         /\ board' = mark.board
                         /\ gameHistory' = history
                         /\ gameActive' = active
                         /\ endTime' = et
                         /\ currentPlayerIndex' = cpi
                         /\ clock' = IF over THEN clock + 2 ELSE clock + 1
                         /\ UNCHANGED startTime
                         /\ result' = Returned(TRUE, "",
                                GameStateOf(mark.board, players, cpi, active,
                                            history, startTime, et))

MakeMove(index) == CallerMay(index) /\ ApplyMove(index)

\* faulty variant: the game is not deactivated
ResetGameStaysActive ==
    /\ currentPlayerIndex' = 0
    /\ gameHistory' = <<>>
    /\ startTime' = Null
    /\ endTime' = Null
    /\ board' = Reset
    /\ call' = Called("resetGame", NoIndex)
    /\ result' = ReturnedVoid
    /\ UNCHANGED <<players, clock, gameActive>>

ResetGame ==
    /\ currentPlayerIndex' = 0
    /\ gameActive' = FALSE
    /\ gameHistory' = <<>>
    /\ startTime' = Null
    /\ endTime' = Null
    /\ board' = Reset
    /\ call' = Called("resetGame", NoIndex)
    /\ result' = ReturnedVoid
    /\ UNCHANGED <<players, clock>>

\* faulty variant: the closing call of startGame left out
RestartGameNoStart ==
    /\ clock + 1 <= MaxClock
    /\ currentPlayerIndex' = 0
    /\ gameHistory' = <<>>
    /\ board' = Reset
    /\ call' = Called("restartGame", NoIndex)
    /\ result' = ReturnedVoid
    /\ UNCHANGED <<players, gameActive, startTime, endTime, clock>>

RestartGame ==
    /\ clock + 1 <= MaxClock
    /\ currentPlayerIndex' = 0
    /\ gameHistory' = <<>>
    /\ board' = Reset
    /\ gameActive' = TRUE
    /\ startTime' = Some(clock)
    /\ endTime' = Null
    /\ clock' = clock + 1
    /\ call' = Called("restartGame", NoIndex)
    /\ result' = ReturnedVoid
    /\ UNCHANGED players

\* the event names in use
Events == {"move", "end"}

\* new EventManager(): an empty Map (an event without key has no listener)
NewEventManager ==
    /\ listeners = [event \in Events |-> <<>>]
    /\ closures = <<>>
    /\ invoked = <<>>

\* the fields new GameController(...) sets itself
NewGameController ==
    /\ statistics = [gamesPlayed |-> 0, player1Wins |-> 0,
                     player2Wins |-> 0, ties |-> 0]
    /\ controllerHistory = <<>>

\* a call on the Game, a Gameboard or a Player reaches neither the
\* EventManager nor the fields of the GameController
ModelsOnly ==
    UNCHANGED <<listeners, closures, invoked, statistics, controllerHistory>>

\* new Game(player1, player2, new Gameboard())
Init ==
    /\ players \in PlayerPairs
    /\ board = EmptyBoard
    /\ currentPlayerIndex = 0
    /\ gameActive = FALSE
    /\ gameHistory = <<>>
    /\ startTime = Null
    /\ endTime = Null
    /\ clock = 0
    /\ call = Called("new Game", NoIndex)
    /\ result = NoResult
    /\ NewEventManager
    /\ NewGameController

Next ==
    \/ StartGame /\ ModelsOnly
    \/ \E index \in IndexArgs : MakeMove(index) /\ ModelsOnly
    \/ ResetGame /\ ModelsOnly
    \/ RestartGame /\ ModelsOnly

Spec == Init /\ [][Next]_vars

----------------------------------------------------------------------------
(* A Gameboard used on its own: any content of the 9 cells, which a caller   *)
(* obtains with setMark or fromJSON, queried with Gameboard.getGameState.    *)

AllBoards == [Cells -> {"", "X", "O"}]

BoardGetGameState ==
    /\ call' = Called("Gameboard.getGameState", NoIndex)
    /\ result' = Returned(FALSE, "", BoardGameState(board))
    /\ UNCHANGED <<board, players, currentPlayerIndex, gameActive,
                   gameHistory, startTime, endTime, clock>>

InitBoard ==
    /\ board \in AllBoards
    /\ players = MkPlayers(Alice("X"), Bob("O"))
    /\ currentPlayerIndex = 0
    /\ gameActive = FALSE
    /\ gameHistory = <<>>
    /\ startTime = Null
    /\ endTime = Null
    /\ clock = 0
    /\ call = Called("new Gameboard", NoIndex)
    /\ result = NoResult
    /\ NewEventManager
    /\ NewGameController

NextBoard == BoardGetGameState /\ ModelsOnly

SpecBoard == InitBoard /\ [][NextBoard]_vars

----------------------------------------------------------------------------
(* Serialisation: toJSON / fromJSON of Player, Gameboard and Game.  A JSON   *)
(* array is a sequence (from 1), a field of the game a function (from 0).    *)

\* new Player(name, symbol): both fields are assigned as given
NewPlayer(name, symbol) == [name |-> name, symbol |-> symbol]

PlayerToJSON(player) == [name |-> player.name, symbol |-> player.symbol]

PlayerFromJSON(data) == NewPlayer(data.name, data.symbol)

BoardToJSON(b) == [board |-> [k \in 1..9 |-> b[k - 1]]]

\* faulty variant: the length test compares with the side of the grid
BoardFromJSONWrongLength(data) ==
    IF Len(data.board) = 3
    THEN [i \in Cells |-> data.board[i + 1]]
    ELSE Reset

\* Gameboard.fromJSON: a fresh board, replaced by a 9-element array
BoardFromJSON(data) ==
    IF Len(data.board) = 9
    THEN [i \in Cells |-> data.board[i + 1]]
    ELSE Reset

\* `value || 0` on a number
OrZero(value) == IF value = 0 THEN 0 ELSE value
\* `value || false` on a boolean
OrFalse(value) == IF value THEN value ELSE FALSE
\* `value ? new Date(value) : null`
DateOrNull(value) == IF value # Null THEN Some(value[1]) ELSE Null

GameToJSON ==
    [players |-> <<PlayerToJSON(players[0]), PlayerToJSON(players[1])>>,
     gameboard |-> BoardToJSON(board),
     currentPlayerIndex |-> currentPlayerIndex,
     gameActive |-> gameActive,
     gameHistory |-> gameHistory,
     startTime |-> startTime,
     endTime |-> endTime]

\* the fields of the Game that Game.fromJSON builds
GameFromJSON(data) ==
    [players |-> MkPlayers(PlayerFromJSON(data.players[1]),
                           PlayerFromJSON(data.players[2])),
     board |-> BoardFromJSON(data.gameboard),
     currentPlayerIndex |-> OrZero(data.currentPlayerIndex),
     gameActive |-> OrFalse(data.gameActive),
     gameHistory |-> data.gameHistory,
     startTime |-> DateOrNull(data.startTime),
     endTime |-> DateOrNull(data.endTime)]

\* the caller goes on with Game.fromJSON(game.toJSON(), Player, Gameboard)
RoundTrip ==
    LET game == GameFromJSON(GameToJSON)
    IN  /\ players' = game.players
        /\ board' = game.board
        /\ currentPlayerIndex' = game.currentPlayerIndex
        /\ gameActive' = game.gameActive
        /\ gameHistory' = game.gameHistory
        /\ startTime' = game.startTime
        /\ endTime' = game.endTime
        /\ call' = Called("Game.fromJSON", NoIndex)
        /\ result' = ReturnedVoid
        /\ UNCHANGED clock

NextJSON ==
    \/ Next
    \/ RoundTrip /\ ModelsOnly

SpecJSON == Init /\ [][NextJSON]_vars

----------------------------------------------------------------------------
(* Player on its own: construction and the two setters.  A name is a         *)
(* sequence of characters, so that trimming is computed.                     *)

\* longest name the caller passes
MaxNameLen == 3

RECURSIVE NamesOfLen(_)
NamesOfLen(n) ==
    IF n = 0 THEN {<<>>}
    ELSE {Append(name, c) : name \in NamesOfLen(n - 1), c \in {"a", " "}}

NameArgs == UNION {NamesOfLen(n) : n \in 0..MaxNameLen}
SymbolArgs == {"X", "O", "Z", ""}

RECURSIVE TrimStart(_)
TrimStart(name) ==
    IF name # <<>> /\ Head(name) = " " THEN TrimStart(Tail(name)) ELSE name

RECURSIVE TrimEnd(_)
TrimEnd(name) ==
    IF name # <<>> /\ name[Len(name)] = " "
    THEN TrimEnd(SubSeq(name, 1, Len(name) - 1))
    ELSE name

\* String.prototype.trim
Trim(name) == TrimEnd(TrimStart(name))

CalledWith(op, args) == [op |-> op, index |-> NoIndex, args |-> args]

gameFields == <<board, currentPlayerIndex, gameActive, gameHistory,
                startTime, endTime, clock>>

\* player = new Player(name, symbol), kept by the caller in a slot
ConstructPlayer(slot, name, symbol) ==
    /\ players' = [players EXCEPT ![slot] = NewPlayer(name, symbol)]
    /\ call' = CalledWith("new Player", <<name, symbol>>)
    /\ result' = ReturnedVoid
    /\ UNCHANGED gameFields

\* player.name = newName
SetName(slot, newName) ==
    /\ call' = CalledWith("set name", <<newName>>)
    /\ IF Len(Trim(newName)) = 0
       THEN /\ result' = Thrown("Player name must be a non-empty string")
            /\ UNCHANGED players
       ELSE /\ result' = ReturnedVoid
            /\ players' = [players EXCEPT ![slot].name = Trim(newName)]
    /\ UNCHANGED gameFields

\* player.symbol = newSymbol
SetSymbol(slot, newSymbol) ==
    /\ call' = CalledWith("set symbol", <<newSymbol>>)
    /\ IF newSymbol \notin {"X", "O"}
       THEN /\ result' = Thrown("Player symbol must be either \"X\" or \"O\"")
            /\ UNCHANGED players
       ELSE /\ result' = ReturnedVoid
            /\ players' = [players EXCEPT ![slot].symbol = newSymbol]
    /\ UNCHANGED gameFields

InitPlayer ==
    /\ players = MkPlayers(NewPlayer(<<"a">>, "X"), NewPlayer(<<"a", "a">>, "O"))
    /\ board = EmptyBoard
    /\ currentPlayerIndex = 0
    /\ gameActive = FALSE
    /\ gameHistory = <<>>
    /\ startTime = Null
    /\ endTime = Null
    /\ clock = 0
    /\ call = Called("new Game", NoIndex)
    /\ result = NoResult
    /\ NewEventManager
    /\ NewGameController

NextPlayer ==
    \/ \E name \in NameArgs, symbol \in SymbolArgs :
          ConstructPlayer(0, name, symbol) /\ ModelsOnly
    \/ \E name \in NameArgs : SetName(0, name) /\ ModelsOnly
    \/ \E symbol \in SymbolArgs : SetSymbol(0, symbol) /\ ModelsOnly

SpecPlayer == InitPlayer /\ [][NextPlayer]_vars

----------------------------------------------------------------------------
(* Gameboard.setMark called directly: on any content of the board the caller *)
(* sets one mark, and may repeat that same call.                             *)

MarkArgs == {"X", "O", "Z"}

CalledMark(index, symbol) ==
    [op |-> "setMark", index |-> index, args |-> <<symbol>>]

BoardSetMark(index, symbol) ==
    /\ call.op = "new Gameboard" \/ call = CalledMark(index, symbol)
    /\ LET mark == SetMark(board, index, symbol)
       IN  /\ board' = mark.board
           /\ result' = IF mark.thrown # "" THEN Thrown(mark.thrown)
                        ELSE [ReturnedVoid EXCEPT !.success = mark.ok]
    /\ call' = CalledMark(index, symbol)
    /\ UNCHANGED <<players, currentPlayerIndex, gameActive, gameHistory,
                   startTime, endTime, clock>>

NextMark ==
    \E index \in IndexArgs, symbol \in MarkArgs :
        BoardSetMark(index, symbol) /\ ModelsOnly

SpecMark == InitBoard /\ [][NextMark]_vars

----------------------------------------------------------------------------
(* The read accessors of a Gameboard, called once on any content of the      *)
(* board, next to setMark.                                                   *)

\* getCellValue: throws, or returns the cell
GetCellValue(b, index) ==
    IF ~IsValidIndex(index)
    THEN [thrown |-> "Invalid board index", value |-> ""]
    ELSE [thrown |-> "", value |-> b[index.v]]

\* isEmpty: throws, or returns whether the cell is ''
IsEmpty(b, index) ==
    IF ~IsValidIndex(index)
    THEN [thrown |-> "Invalid board index", value |-> FALSE]
    ELSE [thrown |-> "", value |-> (b[index.v] = "")]

GetCellValueCall(index) ==
    /\ call.op = "new Gameboard"
    /\ call' = Called("getCellValue", index)
    /\ LET cell == GetCellValue(board, index)
       IN  result' = IF cell.thrown # "" THEN Thrown(cell.thrown)
                     ELSE ReturnedValue(cell.value)
    /\ UNCHANGED <<board, players, currentPlayerIndex, gameActive,
                   gameHistory, startTime, endTime, clock>>

IsEmptyCall(index) ==
    /\ call.op = "new Gameboard"
    /\ call' = Called("isEmpty", index)
    /\ LET empty == IsEmpty(board, index)
       IN  result' = IF empty.thrown # "" THEN Thrown(empty.thrown)
                     ELSE ReturnedValue(empty.value)
    /\ UNCHANGED <<board, players, currentPlayerIndex, gameActive,
                   gameHistory, startTime, endTime, clock>>

NextAccess ==
    \/ \E index \in IndexArgs, symbol \in MarkArgs :
          BoardSetMark(index, symbol) /\ ModelsOnly
    \/ \E index \in IndexArgs : GetCellValueCall(index) /\ ModelsOnly
    \/ \E index \in IndexArgs : IsEmptyCall(index) /\ ModelsOnly

SpecAccess == InitBoard /\ [][NextAccess]_vars

----------------------------------------------------------------------------
(* Game.getPossibleMoves, called between the other operations of the game.   *)

\* faulty variant: lists the empty cells whether or not the game is active
GetPossibleMovesAnyState == GetEmptyPositions(board)

GetPossibleMoves ==
    IF ~gameActive THEN <<>> ELSE GetEmptyPositions(board)

GetPossibleMovesCall ==
    /\ call' = Called("getPossibleMoves", NoIndex)
    /\ result' = ReturnedValue(GetPossibleMoves)
    /\ UNCHANGED <<board, players, currentPlayerIndex, gameActive,
                   gameHistory, startTime, endTime, clock>>

NextMoves ==
    \/ Next
    \/ GetPossibleMovesCall /\ ModelsOnly

SpecMoves == Init /\ [][NextMoves]_vars

----------------------------------------------------------------------------
(* The game of scenario B: X, moving first, takes the cells 0, 4, 5, 7, 8 and *)
(* O the cells 1, 2, 3, 6, each in any order.                                 *)

ScenarioBCells(symbol) == IF symbol = "X" THEN {0, 4, 5, 7, 8} ELSE {1, 2, 3, 6}

ScenarioBMay(index) ==
    /\ IsValidIndex(index)
    /\ index.v \in ScenarioBCells(GetCurrentPlayer.symbol)
    /\ board[index.v] = ""

ScenarioBMove(index) == ScenarioBMay(index) /\ ApplyMove(index)

InitScenarioB == Init /\ players = MkPlayers(Alice("X"), Bob("O"))

NextScenarioB ==
    \/ StartGame /\ ModelsOnly
    \/ \E index \in IndexArgs : ScenarioBMove(index) /\ ModelsOnly

SpecScenarioB == InitScenarioB /\ [][NextScenarioB]_vars

----------------------------------------------------------------------------
(* Game.validateMove, called between the other operations of the game.       *)

\* faulty variant: the isEmpty test left out
ValidateMoveAnyCell(index) ==
    IF ~gameActive
    THEN [valid |-> FALSE, error |-> "Game is not active"]
    ELSE IF ~index.isInteger \/ index.v < 0 \/ index.v > 8
    THEN [valid |-> FALSE, error |-> "Invalid board position"]
    ELSE [valid |-> TRUE, error |-> ""]

ValidateMove(index) ==
    IF ~gameActive
    THEN [valid |-> FALSE, error |-> "Game is not active"]
    ELSE IF ~index.isInteger \/ index.v < 0 \/ index.v > 8
    THEN [valid |-> FALSE, error |-> "Invalid board position"]
    ELSE IF ~IsEmpty(board, index).value
    THEN [valid |-> FALSE, error |-> "Position already occupied"]
    ELSE [valid |-> TRUE, error |-> ""]

\* whether makeMove(index) reaches its `success: true` return: the game is
\* active and setMark neither throws nor returns false
MakeMoveAccepts(index) ==
    /\ IsGameActive
    /\ LET mark == SetMark(board, index, GetCurrentPlayer.symbol)
       IN  mark.thrown = "" /\ mark.ok

ValidateMoveCall(index) ==
    /\ call' = Called("validateMove", index)
    /\ result' = ReturnedValue(ValidateMove(index))
    /\ UNCHANGED <<board, players, currentPlayerIndex, gameActive,
                   gameHistory, startTime, endTime, clock>>

NextValidate ==
    \/ Next
    \/ \E index \in IndexArgs : ValidateMoveCall(index) /\ ModelsOnly

SpecValidate == Init /\ [][NextValidate]_vars

----------------------------------------------------------------------------
(* One game played to its end: the game is started once, and the caller      *)
(* keeps submitting moves; a valid move on an empty cell is never withheld   *)
(* for ever while the game waits for one.                                    *)

StartOnce == call.op = "new Game" /\ StartGame

\* a move on an empty cell of the active game
ValidMove ==
    \E index \in IndexArgs :
        /\ gameActive /\ IsValidIndex(index) /\ board[index.v] = ""
        /\ MakeMove(index)
        /\ ModelsOnly

NextPlay ==
    \/ StartOnce /\ ModelsOnly
    \/ \E index \in IndexArgs : MakeMove(index) /\ ModelsOnly

SpecPlay == Init /\ [][NextPlay]_vars /\ WF_vars(ValidMove)

----------------------------------------------------------------------------
(* GameController: the handlers of the four view events.  `call` and         *)
(* `result` are the last call the handler made on the game.  The views only  *)
(* display; of _log and the display nothing is kept.                         *)

\* the names the setup view hands over (trimmed, never empty)
NameInputs == {"Alice", "Bob"}

\* SetupView.validateInputs on these names: they must differ
ValidateInputs(name1, name2) == name1 # name2

\* faulty variant: the game is not counted in gamesPlayed
UpdateStatisticsNoCount(stats, gameState) ==
    IF gameState.winningPlayer # Null
    THEN IF gameState.winningPlayer[1].name = players[0].name
         THEN [stats EXCEPT !.player1Wins = @ + 1]
         ELSE [stats EXCEPT !.player2Wins = @ + 1]
    ELSE [stats EXCEPT !.ties = @ + 1]

\* _updateStatistics
UpdateStatistics(stats, gameState) ==
    LET counted == [stats EXCEPT !.gamesPlayed = @ + 1]
    IN  IF gameState.winningPlayer # Null
        THEN IF gameState.winningPlayer[1].name = players[0].name
             THEN [counted EXCEPT !.player1Wins = @ + 1]
             ELSE [counted EXCEPT !.player2Wins = @ + 1]
        ELSE [counted EXCEPT !.ties = @ + 1]

\* _handleGameEnd; its own `new Date()` reads the instant the game's end
\* left the clock at
HandleGameEnd(gameState, now) ==
    /\ statistics' = UpdateStatistics(statistics, gameState)
    /\ controllerHistory' = Append(controllerHistory,
          [players |-> [k \in 0..1 |-> [name |-> gameState.players[k].name,
                                        symbol |-> gameState.players[k].symbol]],
           winner |-> IF gameState.winningPlayer # Null
                      THEN Some(gameState.winningPlayer[1].name) ELSE Null,
           moves |-> gameState.gameHistory,
           duration |-> gameState.gameDuration,
           endTime |-> now])

\* _handleStartGame
HandleStartGame(name1, name2) ==
    IF ~ValidateInputs(name1, name2)
    THEN /\ call' = Called("validateInputs", NoIndex)
         /\ result' = NoResult
         /\ UNCHANGED <<board, players, currentPlayerIndex, gameActive,
                        gameHistory, startTime, endTime, clock,
                        statistics, controllerHistory>>
    ELSE /\ clock + 1 <= MaxClock
         /\ players' = MkPlayers(NewPlayer(name1, "X"), NewPlayer(name2, "O"))
         /\ gameActive' = TRUE
         /\ currentPlayerIndex' = 0
         /\ gameHistory' = <<>>
         /\ startTime' = Some(clock)
         /\ endTime' = Null
         /\ board' = Reset
         /\ clock' = clock + 1
         /\ call' = Called("startGame", NoIndex)
         /\ result' = ReturnedVoid
         /\ UNCHANGED <<statistics, controllerHistory>>

\* the games clicked through: won by X in five moves, won by O in six, tied
ClickScripts ==
    {<<0, 3, 1, 4, 2>>, <<0, 3, 1, 4, 8, 5>>, <<0, 1, 2, 4, 3, 5, 7, 6, 8>>}

\* an empty cell is clicked when it continues one of these games; any other
\* click (occupied cell, no cell of the board, game over) may come any time
ClickMay(index) ==
    IF ~IsValidIndex(index) THEN TRUE
    ELSE IF board[index.v] # "" THEN TRUE
    ELSE \E s \in ClickScripts :
            /\ Len(gameHistory) < Len(s)
            /\ \A k \in 1..Len(gameHistory) : gameHistory[k].position = s[k]
            /\ s[Len(gameHistory) + 1] = index.v

\* _handleCellClick
HandleCellClick(index) ==
    IF ~IsGameActive
    THEN /\ call' = Called("isGameActive", NoIndex)
         /\ result' = ReturnedValue(FALSE)
         /\ UNCHANGED <<board, players, currentPlayerIndex, gameActive,
                        gameHistory, startTime, endTime, clock,
                        statistics, controllerHistory>>
    ELSE /\ ClickMay(index)
         /\ ApplyMove(index)
         /\ IF result'.success /\ ~result'.gameState[1].isGameActive
            THEN HandleGameEnd(result'.gameState[1], clock')
            ELSE UNCHANGED <<statistics, controllerHistory>>

\* _handleNewGame
HandleNewGame == RestartGame /\ UNCHANGED <<statistics, controllerHistory>>

\* _handleChangePlayers
HandleChangePlayers == ResetGame /\ UNCHANGED <<statistics, controllerHistory>>

NextController ==
    \/ \E name1, name2 \in NameInputs :
          HandleStartGame(name1, name2) /\ UNCHANGED <<listeners, closures, invoked>>
    \/ \E index \in IndexArgs :
          HandleCellClick(index) /\ UNCHANGED <<listeners, closures, invoked>>
    \/ HandleNewGame /\ UNCHANGED <<listeners, closures, invoked>>
    \/ HandleChangePlayers /\ UNCHANGED <<listeners, closures, invoked>>

SpecController == Init /\ [][NextController]_vars

----------------------------------------------------------------------------
(* EventManager: on, off, emit, once.  A function is a value with an         *)
(* identity: a handler of the caller is known by its name, every call of     *)
(* once makes a new onceCallback closure.  The callbacks "f" and "g" only    *)
(* note that they ran; "again" emits, from inside, the event it is handling. *)
(* No callback registers a listener, so the array that forEach walks is the  *)
(* array under the event's key, or both are empty.                           *)

\* number of listeners the caller keeps registered at a time, over all events
MaxListeners == 3
\* number of times the caller uses once
MaxClosures == 2

Callbacks == {"f", "g", "again"}
\* "again" would never return if it stayed registered: it is passed to once only
PlainCallbacks == {"f", "g"}
ArgValues == {"a", "b"}

Handler(name) == [kind |-> "function", name |-> name, event |-> "", serial |-> 0]
\* the closure `(...args) => { this.off(event, onceCallback); callback(...args) }`
OnceCallback(event, name, serial) ==
    [kind |-> "onceCallback", name |-> name, event |-> event, serial |-> serial]
NotAFunction == [kind |-> "object", name |-> "", event |-> "", serial |-> 0]

Listener(callback) == [callback |-> callback, context |-> Null]

\* Array.prototype.findIndex(listener => listener.callback === callback),
\* counted from 1, 0 when there is none
RECURSIVE FindIndexFrom(_, _, _)
FindIndexFrom(array, callback, k) ==
    IF k > Len(array) THEN 0
    ELSE IF array[k].callback = callback THEN k
    ELSE FindIndexFrom(array, callback, k + 1)

FindIndex(array, callback) == FindIndexFrom(array, callback, 1)

\* Array.prototype.splice(index, 1)
Splice(array, index) ==
    SubSeq(array, 1, index - 1) \o SubSeq(array, index + 1, Len(array))

\* faulty variant: the last listener is removed, whichever was found
OffLast(ls, event, callback) ==
    IF ls[event] = <<>> THEN ls
    ELSE [ls EXCEPT ![event] = Splice(@, Len(@))]

\* the body of off, on the Map ls
Off(ls, event, callback) ==
    IF ls[event] = <<>> THEN ls
    ELSE LET index == FindIndex(ls[event], callback)
         IN  IF index # 0 THEN [ls EXCEPT ![event] = Splice(@, index)] ELSE ls

\* emit, the forEach inside it and the call of one listener; m holds the
\* Map, the callbacks run so far and the runs of the closures
RECURSIVE Emit(_, _, _)
RECURSIVE ForEach(_, _, _, _, _)
RECURSIVE CallListener(_, _, _, _)

RunCallback(m, event, callback, arg) ==
    LET entry == [event |-> event, listener |-> callback, arg |-> arg]
        ran == IF callback.kind = "onceCallback"
               THEN [m EXCEPT !.invoked = Append(@, entry),
                              !.closures[callback.serial] = @ + 1]
               ELSE [m EXCEPT !.invoked = Append(@, entry)]
    IN  IF callback.name = "again" THEN Emit(ran, event, arg) ELSE ran

CallListener(m, event, callback, arg) ==
    IF callback.kind = "onceCallback"
    THEN RunCallback([m EXCEPT !.listeners = Off(@, callback.event, callback)],
                     event, callback, arg)
    ELSE RunCallback(m, event, callback, arg)

\* forEach visits the indexes below the length the array had at the start,
\* and of these the ones the array still has
ForEach(m, event, arg, k, len) ==
    IF k > len THEN m
    ELSE IF k > Len(m.listeners[event]) THEN ForEach(m, event, arg, k + 1, len)
    ELSE ForEach(CallListener(m, event, m.listeners[event][k].callback, arg),
                 event, arg, k + 1, len)

Emit(m, event, arg) ==
    IF m.listeners[event] = <<>> THEN m
    ELSE ForEach(m, event, arg, 1, Len(m.listeners[event]))

gameAndController ==
    <<board, players, currentPlayerIndex, gameActive, gameHistory, startTime,
      endTime, clock, statistics, controllerHistory>>

Registered == Len(listeners["move"]) + Len(listeners["end"])

\* eventManager.on(event, callback)
On(event, callback) ==
    /\ Registered < MaxListeners
    /\ call' = CalledWith("on", <<event, callback>>)
    /\ IF callback.kind = "object"
       THEN /\ result' = Thrown("Callback must be a function")
            /\ UNCHANGED listeners
       ELSE /\ result' = ReturnedVoid
            /\ listeners' = [listeners EXCEPT ![event] = Append(@, Listener(callback))]
    /\ invoked' = <<>>
    /\ UNCHANGED <<closures, gameAndController>>

\* eventManager.off(event, callback)
OffCall(event, callback) ==
    /\ call' = CalledWith("off", <<event, callback>>)
    /\ result' = ReturnedVoid
    /\ listeners' = Off(listeners, event, callback)
    /\ invoked' = <<>>
    /\ UNCHANGED <<closures, gameAndController>>

\* eventManager.emit(event, arg)
EmitCall(event, arg) ==
    /\ call' = CalledWith("emit", <<event, arg>>)
    /\ result' = ReturnedVoid
    /\ LET m == Emit([listeners |-> listeners, invoked |-> <<>>,
                      closures |-> closures], event, arg)
       IN  /\ listeners' = m.listeners
           /\ invoked' = m.invoked
           /\ closures' = m.closures
    /\ UNCHANGED gameAndController

\* eventManager.once(event, callback): on(event, onceCallback)
Once(event, name) ==
    /\ Registered < MaxListeners
    /\ Len(closures) < MaxClosures
    /\ call' = CalledWith("once", <<event, Handler(name)>>)
    /\ result' = ReturnedVoid
    /\ closures' = Append(closures, 0)
    /\ listeners' = [listeners EXCEPT ![event] =
          Append(@, Listener(OnceCallback(event, name, Len(closures) + 1)))]
    /\ invoked' = <<>>
    /\ UNCHANGED gameAndController

InitEvents == Init /\ players = MkPlayers(Alice("X"), Bob("O"))

NextEvents ==
    \/ \E event \in Events, name \in PlainCallbacks : On(event, Handler(name))
    \/ \E event \in Events : On(event, NotAFunction)
    \/ \E event \in Events, name \in PlainCallbacks : OffCall(event, Handler(name))
    \/ \E event \in Events, arg \in ArgValues : EmitCall(event, arg)
    \/ \E event \in Events, name \in Callbacks : Once(event, name)

SpecEvents == InitEvents /\ [][NextEvents]_vars

----------------------------------------------------------------------------
(* Properties *)

\* the 8 triples, written out from the geometry of the 3x3 grid
Rows == {{3 * r, 3 * r + 1, 3 * r + 2} : r \in 0..2}
Columns == {{c, c + 3, c + 6} : c \in 0..2}
Diagonals == {{0, 4, 8}, {2, 4, 6}}
Triples == Rows \cup Columns \cup Diagonals

UniformTriple(b, t) == \E m \in {"X", "O"} : \A i \in t : b[i] = m
HasUniformTriple(b) == \E t \in Triples : UniformTriple(b, t)

MoveCall == call.op = "makeMove"
Snapshot == result.gameState[1]

\* C1: while the game stays active the turn alternates strictly: an accepted
\* makeMove that leaves the game active flips currentPlayerIndex (0 -> 1 or
\* 1 -> 0), and a rejected makeMove leaves it as it was.
C1_TurnAlternates ==
    [][call'.op = "makeMove" =>
         /\ currentPlayerIndex' \in {0, 1}
         /\ (result'.success /\ gameActive') =>
                currentPlayerIndex' = 1 - currentPlayerIndex
         /\ ~result'.success => currentPlayerIndex' = currentPlayerIndex]_vars

\* an accepted move has brought the turn back to slot 0
C1_Witness ==
    /\ MoveCall /\ result.success /\ gameActive
    /\ Len(gameHistory) = 4 /\ currentPlayerIndex = 0

\* C2: the length of the move history plus the number of empty cells is 9 in
\* every state (the constructed game included).
C2_MoveCount == Len(gameHistory) + Len(GetEmptyPositions(board)) = 9

\* a rejected move in the middle of a started game
C2_Witness ==
    /\ MoveCall /\ ~result.success /\ gameActive
    /\ Len(gameHistory) = 5 /\ Len(GetEmptyPositions(board)) = 4

\* C3: a marked cell is not changed by makeMove (hence by its setMark); a
\* marked cell changes only when startGame, restartGame or resetGame empties
\* the whole board.
C3_MarkedCellsStay ==
    [][\A i \in Cells :
         (board[i] # "" /\ board'[i] # board[i]) =>
            /\ call'.op \in {"startGame", "restartGame", "resetGame"}
            /\ board' = [j \in Cells |-> ""]]_vars

\* makeMove was called on a cell holding the opponent's mark, which is kept
C3_Witness ==
    /\ MoveCall /\ gameActive /\ IsValidIndex(call.index)
    /\ ~result.success
    /\ board[call.index.v] \notin {"", players[currentPlayerIndex].symbol}

\* C4: the game is active only if the board has no uniform triple and is not
\* full, and makeMove is accepted only if the game was active before the call.
Unfinished(b) == ~HasUniformTriple(b) /\ \E i \in Cells : b[i] = ""

C4_ActiveOnlyBeforeTheEnd ==
    [][/\ gameActive => Unfinished(board)
       /\ gameActive' => Unfinished(board')
       /\ (call'.op = "makeMove" /\ result'.success) => gameActive]_vars

\* the eighth move was accepted and the game is still active
C4_Witness ==
    /\ MoveCall /\ result.success /\ gameActive /\ Len(gameHistory) = 8

\* C5: makeMove on a game that is not active returns the failure
\* 'Game is not active' for every index and changes nothing.
C5_InactiveRejects ==
    [][(call'.op = "makeMove" /\ ~gameActive) =>
         /\ result'.returned /\ result'.thrown = ""
         /\ ~result'.success
         /\ result'.error = "Game is not active"
         /\ UNCHANGED <<board, gameHistory, currentPlayerIndex, gameActive,
                        startTime, endTime, players>>]_vars

\* an out-of-range index passed to a game that has ended
C5_Witness ==
    /\ MoveCall /\ ~gameActive /\ endTime # Null
    /\ ~IsValidIndex(call.index)
    /\ result.error = "Game is not active"

\* C6: makeMove on an occupied cell of an active game returns the failure
\* 'Position already occupied' and changes nothing: same board, same turn,
\* same history, game still active.
C6_OccupiedRejects ==
    [][(call'.op = "makeMove" /\ gameActive /\ IsValidIndex(call'.index)) =>
         (board[call'.index.v] # "" =>
            /\ result'.returned /\ result'.thrown = ""
            /\ ~result'.success
            /\ result'.error = "Position already occupied"
            /\ gameActive'
            /\ UNCHANGED <<board, gameHistory, currentPlayerIndex>>)]_vars

\* the second player called makeMove on the cell the first player took
C6_Witness ==
    /\ MoveCall /\ gameActive /\ result.error = "Position already occupied"
    /\ Len(gameHistory) = 1 /\ currentPlayerIndex = 1
    /\ call.index = Num(gameHistory[1].position)

\* C7: makeMove on an active game with an index that is not an integer in
\* 0..8 returns a structured failure (success = false, an error, the
\* snapshot) and throws nothing.
C7_InvalidIndexReported ==
    (MoveCall /\ gameActive /\ ~IsValidIndex(call.index)) =>
        /\ result.thrown = ""
        /\ result.returned
        /\ ~result.success
        /\ result.error # ""
        /\ result.gameState # Null

\* C8: for every content of the board, checkWinner is non-null iff one of
\* the 8 triples is uniform and non-empty, getWinningCombination is non-null
\* in exactly the same case, and the three cells it names hold the mark that
\* checkWinner returns.
C8_WinnerIffUniformTriple ==
    call.op = "Gameboard.getGameState" =>
        /\ Snapshot.winner # Null <=> HasUniformTriple(board)
        /\ Snapshot.winningCombination # Null <=> HasUniformTriple(board)
        /\ Snapshot.winningCombination # Null =>
              LET combination == Snapshot.winningCombination[1]
              IN  /\ {combination[j] : j \in 1..3} \in Triples
                  /\ Snapshot.winner[1] \in {"X", "O"}
                  /\ \A j \in 1..3 : board[combination[j]] = Snapshot.winner[1]

\* a board whose only uniform triple is a column of O
C8_Witness ==
    /\ call.op = "Gameboard.getGameState"
    /\ Snapshot.winner = Some("O")
    /\ Snapshot.winningCombination = Some(<<1, 4, 7>>)
    /\ \A t \in Triples : UniformTriple(board, t) => t = {1, 4, 7}

\* C9: when an accepted move completes a uniform triple, the returned
\* snapshot is inactive, its winner is the mover's symbol, its winningPlayer
\* is the mover and its winningCombination names three cells holding that
\* symbol.
C9_WinIsReported ==
    [][(call'.op = "makeMove" /\ result'.success /\ HasUniformTriple(board')) =>
         LET mover == players[currentPlayerIndex]
             gs == result'.gameState[1]
         IN  /\ ~gs.isGameActive
             /\ ~gameActive'
             /\ gs.winner = Some(mover.symbol)
             /\ gs.winningPlayer = Some(mover)
             /\ gs.winningCombination # Null
             /\ {gs.winningCombination[1][j] : j \in 1..3} \in Triples
             /\ \A j \in 1..3 :
                   gs.board[gs.winningCombination[1][j]] = mover.symbol]_vars

\* X plays 0, 1, 2 with O playing 3, 4 in between
C9_Witness ==
    /\ MoveCall /\ result.success
    /\ [k \in 1..Len(gameHistory) |-> gameHistory[k].position] = <<0, 3, 1, 4, 2>>
    /\ gameHistory[1].symbol = "X"
    /\ Snapshot.winner = Some("X")
    /\ Snapshot.winningPlayer = Some(players[0])
    /\ Snapshot.winningCombination = Some(<<0, 1, 2>>)
    /\ ~Snapshot.isGameActive

\* C10: when an accepted move fills the ninth cell and no triple is uniform,
\* the game is inactive and the snapshot reports a tie: isFull, no winner,
\* no winningPlayer, no winningCombination.
C10_TieIsReported ==
    (MoveCall /\ result.success /\ ~HasUniformTriple(board)
        /\ \A i \in Cells : board[i] # "") =>
        /\ ~gameActive
        /\ ~Snapshot.isGameActive
        /\ Snapshot.isFull
        /\ Snapshot.winner = Null
        /\ Snapshot.winningPlayer = Null
        /\ Snapshot.winningCombination = Null

\* the ninth move was accepted and left no uniform triple
C10_Witness ==
    /\ MoveCall /\ result.success /\ Len(gameHistory) = 9
    /\ ~HasUniformTriple(board)
    /\ Snapshot.winner = Null /\ Snapshot.isFull

\* the board of scenario B once all nine cells are taken
ScenarioBBoard ==
    [i \in Cells |-> IF i \in ScenarioBCells("X") THEN "X" ELSE "O"]

\* C11 (as stated): a game in which X takes 0, 4, 5, 7, 8 and O takes
\* 1, 2, 3, 6 ends as a tie: the move that ends it leaves all 9 cells
\* filled, checkWinner null and isFull true.
C11_ScenarioBIsTie ==
    (MoveCall /\ result.success /\ ~gameActive) =>
        /\ board = ScenarioBBoard
        /\ Snapshot.isFull
        /\ Snapshot.winner = Null

\* C11 (amended): such a game is never a tie.  It ends with the move by
\* which X holds 0, 4 and 8, with winner X and winning combination
\* [0, 4, 8]; and when all nine cells get filled, isFull is true and
\* checkWinner is X.
C11_ScenarioBIsWonByX ==
    /\ (MoveCall /\ result.success /\ ~gameActive) =>
          /\ Snapshot.winner = Some("X")
          /\ Snapshot.winningPlayer = Some(players[0])
          /\ Snapshot.winningCombination = Some(<<0, 4, 8>>)
          /\ call.index.v \in {0, 4, 8}
    /\ gameActive => \E i \in {0, 4, 8} : board[i] = ""
    /\ board = ScenarioBBoard =>
          /\ ~gameActive
          /\ IsFull(board)
          /\ CheckWinner(board) = Some("X")

\* all nine cells of scenario B are filled, X completing 0-4-8 last
C11_Witness ==
    /\ MoveCall /\ result.success
    /\ board = ScenarioBBoard
    /\ Len(gameHistory) = 9
    /\ Snapshot.isFull /\ Snapshot.winner = Some("X")

HoldsTriple(b, m) == \E t \in Triples : \A i \in t : b[i] = m

\* C12: in a game between players with the distinct symbols X and O, no
\* reachable board has a uniform triple of X together with one of O.
C12_OneWinnerAtMost == ~(HoldsTriple(board, "X") /\ HoldsTriple(board, "O"))

\* the second player's mark completed a triple and the game ended
C12_Witness ==
    /\ MoveCall /\ result.success /\ ~gameActive
    /\ HoldsTriple(board, players[1].symbol)
    /\ ~HoldsTriple(board, players[0].symbol)

\* C13: startGame, called in any state, leaves the same reset state: nine
\* empty cells, empty history, currentPlayerIndex 0, active, no end time and
\* a start time; a second startGame right after the first changes nothing
\* but the start time.
C13_StartGameResets ==
    [][call'.op = "startGame" =>
         /\ board' = [i \in Cells |-> ""]
         /\ gameHistory' = <<>>
         /\ currentPlayerIndex' = 0
         /\ gameActive'
         /\ endTime' = Null
         /\ startTime' # Null
         /\ players' = players
         /\ call.op = "startGame" =>
               UNCHANGED <<board, gameHistory, currentPlayerIndex, gameActive,
                           endTime, players>>]_vars

\* startGame was called on a game that had been started before
C13_Witness ==
    /\ call.op = "startGame"
    /\ startTime # Null /\ startTime[1] > 0
    /\ gameActive /\ gameHistory = <<>>

\* C14: restartGame, from any state, leaves the state startGame would leave
\* from there (nine empty cells, empty history, currentPlayerIndex 0, active,
\* no end time, the start time stamped with one reading of the clock) and
\* keeps the two players in their slots.
C14_RestartIsStart ==
    [][call'.op = "restartGame" =>
         /\ board' = [i \in Cells |-> ""]
         /\ Len(GetEmptyPositions(board')) = 9
         /\ gameHistory' = <<>>
         /\ currentPlayerIndex' = 0
         /\ gameActive'
         /\ endTime' = Null
         /\ startTime' = Some(clock)
         /\ clock' = clock + 1
         /\ players' = players]_vars

\* restartGame was called on a game that had been started before
C14_Witness ==
    /\ call.op = "restartGame"
    /\ startTime # Null /\ startTime[1] > 5
    /\ gameActive /\ gameHistory = <<>> /\ board = [i \in Cells |-> ""]

\* the state resetGame leaves: nothing started, nothing stamped
InSetup ==
    /\ ~gameActive
    /\ board = [i \in Cells |-> ""]
    /\ gameHistory = <<>>
    /\ currentPlayerIndex = 0
    /\ startTime = Null /\ endTime = Null

\* C15: resetGame, from any state, leaves the game in setup (empty board,
\* empty history, no timestamps, currentPlayerIndex 0, not active), and from
\* there every makeMove is rejected as 'Game is not active' and leaves the
\* game in setup: only startGame or restartGame activates it again.
C15_ResetDeactivates ==
    [][/\ call'.op = "resetGame" => InSetup'
       /\ (InSetup /\ call'.op = "makeMove") =>
             /\ ~result'.success
             /\ result'.error = "Game is not active"
             /\ InSetup'
       /\ (InSetup /\ gameActive') =>
             call'.op \in {"startGame", "restartGame"}]_vars

\* a move was rejected on a game that was started and then reset
C15_Witness ==
    /\ MoveCall /\ InSetup /\ clock > 5
    /\ IsValidIndex(call.index)
    /\ result.error = "Game is not active"

\* C16: Game.fromJSON(g.toJSON()) has the board cells, players, current
\* player index, active flag, history and timestamps of g, which are all
\* that makeMove reads: the next makeMove answers and acts as it would on g.
C16_RoundTrip ==
    [][call'.op = "Game.fromJSON" =>
         /\ \A i \in Cells : board'[i] = board[i]
         /\ \A k \in 0..1 : /\ players'[k].name = players[k].name
                            /\ players'[k].symbol = players[k].symbol
         /\ currentPlayerIndex' = currentPlayerIndex
         /\ gameActive' = gameActive
         /\ gameHistory' = gameHistory
         /\ startTime' = startTime /\ endTime' = endTime
         /\ UNCHANGED <<board, players>>]_vars

\* a game was rebuilt in the middle, with the second player to move
C16_Witness ==
    /\ call.op = "Game.fromJSON"
    /\ gameActive /\ currentPlayerIndex = 1 /\ Len(gameHistory) = 3
    /\ \E i \in Cells : board[i] = "O"

\* C17: constructing a Player throws, and creates no player, whenever the
\* name is empty after trimming or the symbol is neither 'X' nor 'O'; it
\* succeeds only with a non-empty name and a symbol of {X, O}.
C17_ConstructorValidates ==
    call.op = "new Player" =>
        LET name == call.args[1]
            symbol == call.args[2]
            valid == Len(Trim(name)) > 0 /\ symbol \in {"X", "O"}
        IN  /\ ~valid => result.thrown # ""
            /\ result.returned => valid

Finished(b) == HasUniformTriple(b) \/ \A i \in Cells : b[i] # ""
LastMover == gameHistory[Len(gameHistory)].player

\* C18 (as stated): in the snapshot makeMove returns, currentPlayer is null
\* (neither of the two players) when the game has ended by win or tie, and
\* the player whose turn it is while the game is active.
C18_CurrentPlayerNullAtEnd ==
    (MoveCall /\ result.returned /\ gameHistory # <<>>) =>
        IF ~gameActive /\ Finished(board)
        THEN Snapshot.currentPlayer \notin {players[0], players[1]}
        ELSE gameActive => Snapshot.currentPlayer.name # LastMover

\* C18 (amended): currentPlayer of the snapshot is never null.  While the
\* game is active it is the player whose turn it is (the one who did not
\* make the last move); once the game has ended by win or tie it is the
\* player who made the final move.
C18_CurrentPlayerAtEnd ==
    (MoveCall /\ result.returned /\ gameHistory # <<>>) =>
        /\ Snapshot.currentPlayer \in {players[0], players[1]}
        /\ Snapshot.currentPlayer = players[currentPlayerIndex]
        /\ (~gameActive /\ Finished(board)) =>
              Snapshot.currentPlayer.name = LastMover
        /\ gameActive => Snapshot.currentPlayer.name # LastMover

\* the second player made the final move and is the snapshot's currentPlayer
C18_Witness ==
    /\ MoveCall /\ result.success /\ ~gameActive /\ Finished(board)
    /\ Snapshot.currentPlayer = players[1]
    /\ LastMover = players[1].name

\* C19: for every board, index i of 0..8 and mark m of {X, O}: setMark(i, m)
\* on an empty cell returns true, leaves m in cell i and every other cell as
\* it was; on an occupied cell it returns false and leaves all nine cells
\* as they were, and so does the same call made again.
C19_SetMarkFrame ==
    [][(/\ call'.op = "setMark"
        /\ IsValidIndex(call'.index)
        /\ call'.args[1] \in {"X", "O"}) =>
          LET i == call'.index.v
          IN  IF board[i] = ""
              THEN /\ result'.returned /\ result'.success
                   /\ board'[i] = call'.args[1]
                   /\ \A j \in Cells \ {i} : board'[j] = board[j]
              ELSE /\ result'.returned /\ ~result'.success
                   /\ \A j \in Cells : board'[j] = board[j]]_vars

\* setMark was refused on a cell that holds the other mark, which it keeps
C19_Witness ==
    /\ call.op = "setMark" /\ IsValidIndex(call.index)
    /\ call.args[1] = "O"
    /\ result.returned /\ ~result.success
    /\ board[call.index.v] = "X"

\* C20: getPossibleMoves returns exactly the indexes of the empty cells, in
\* ascending order, when the game is active, and the empty sequence in
\* every state that is not active (set-up, after a reset, after the end).
C20_PossibleMoves ==
    call.op = "getPossibleMoves" =>
        LET moves == result.value
        IN  /\ result.returned
            /\ gameActive =>
                 /\ \A k \in 1..Len(moves) : moves[k] \in Cells /\ board[moves[k]] = ""
                 /\ \A i \in Cells : board[i] = "" => \E k \in 1..Len(moves) : moves[k] = i
                 /\ \A k \in 1..(Len(moves) - 1) : moves[k] < moves[k + 1]
            /\ ~gameActive => moves = <<>>

\* the won game, with cells still empty, has no possible move
C20_Witness ==
    /\ call.op = "getPossibleMoves"
    /\ ~gameActive /\ HasUniformTriple(board)
    /\ \E i \in Cells : board[i] = ""
    /\ result.value = <<>>

\* the game in play lists its empty cells
C20_WitnessActive ==
    /\ call.op = "getPossibleMoves"
    /\ gameActive /\ Len(gameHistory) = 2
    /\ Len(result.value) = 7

\* the order of evaluation the claim fixes: rows top to bottom, columns left
\* to right, then the diagonals
TripleOrder ==
    [k \in 1..8 |->
        IF k <= 3 THEN <<3 * (k - 1), 3 * (k - 1) + 1, 3 * (k - 1) + 2>>
        ELSE IF k <= 6 THEN <<k - 4, k - 1, k + 2>>
        ELSE IF k = 7 THEN <<0, 4, 8>> ELSE <<2, 4, 6>>]

UniformAt(b, k) ==
    LET t == TripleOrder[k]
    IN  b[t[1]] \in {"X", "O"} /\ b[t[2]] = b[t[1]] /\ b[t[3]] = b[t[1]]

\* C21: checkWinner and getWinningCombination report the first uniform
\* non-empty triple in the order rows [0,1,2],[3,4,5],[6,7,8], columns
\* [0,3,6],[1,4,7],[2,5,8], diagonals [0,4,8],[2,4,6]; when two lines are
\* complete, the reported combination is the earlier one in this order.
C21_FirstTripleInOrder ==
    call.op = "Gameboard.getGameState" =>
        \A k \in 1..8 :
            (UniformAt(board, k) /\ \A j \in 1..(k - 1) : ~UniformAt(board, j)) =>
                /\ Snapshot.winningCombination = <<TripleOrder[k]>>
                /\ Snapshot.winner = <<board[TripleOrder[k][1]]>>

\* the mark in cell 0 completed the first row and the first column at once:
\* the row is reported
C21_Witness ==
    /\ call.op = "Gameboard.getGameState"
    /\ \A i \in {0, 1, 2, 3, 6} : board[i] = "X"
    /\ \A i \in {4, 5, 7, 8} : board[i] = "O"
    /\ Snapshot.winningCombination = << <<0, 1, 2>> >>
    /\ Snapshot.winner = <<"X">>

\* C22: an accepted makeMove appends exactly one entry at the end of the
\* history, with the name and symbol of the player who moved (the current
\* player before the call) and the played index; a rejected makeMove appends
\* nothing; makeMove never changes or reorders the entries already there.
C22_HistoryAppendOnly ==
    [][call'.op = "makeMove" =>
         IF result'.success
         THEN /\ Len(gameHistory') = Len(gameHistory) + 1
              /\ \A k \in 1..Len(gameHistory) : gameHistory'[k] = gameHistory[k]
              /\ LET last == gameHistory'[Len(gameHistory')]
                 IN  /\ last.player = players[currentPlayerIndex].name
                     /\ last.symbol = players[currentPlayerIndex].symbol
                     /\ last.position = call'.index.v
         ELSE gameHistory' = gameHistory]_vars

\* the second player's move was appended behind two earlier entries
C22_Witness ==
    /\ MoveCall /\ result.success
    /\ Len(gameHistory) = 4
    /\ gameHistory[4].player = players[1].name
    /\ gameHistory[4].symbol = players[1].symbol
    /\ gameHistory[4].position = call.index.v
    /\ gameHistory[1].player = players[0].name

\* an index the board has: an integer of 0..8
BoardPosition(index) == index.isInteger /\ index.v \in 0..8
\* an index outside 0..8
OutsideBoard(index) == index.v < 0 \/ index.v > 8

\* C23: setMark raises an error when the index is not an integer of 0..8 or
\* the mark is neither 'X' nor 'O', and then leaves all nine cells as they
\* were; getCellValue and isEmpty raise the invalid-index error for every
\* index outside 0..8.
C23_FailsLoudly ==
    [][/\ (/\ call'.op = "setMark"
           /\ ~BoardPosition(call'.index) \/ call'.args[1] \notin {"X", "O"}) =>
              /\ result'.thrown # "" /\ ~result'.returned
              /\ \A i \in Cells : board'[i] = board[i]
       /\ (/\ call'.op \in {"getCellValue", "isEmpty"}
           /\ OutsideBoard(call'.index)) =>
              /\ result'.thrown = "Invalid board index" /\ ~result'.returned
              /\ \A i \in Cells : board'[i] = board[i]]_vars

\* setMark refused a mark that is neither X nor O on an empty cell of a
\* board that holds marks
C23_Witness ==
    /\ call.op = "setMark" /\ BoardPosition(call.index)
    /\ call.args[1] = "Z"
    /\ result.thrown # ""
    /\ board[call.index.v] = "" /\ \E i \in Cells : board[i] = "X"

\* isEmpty refused the index 9
C23_WitnessAccessor ==
    /\ call.op = "isEmpty" /\ call.index = Num(9)
    /\ result.thrown = "Invalid board index"

EmitCallOf(c) == c.op = "emit"

\* C24: emit(event, arg) invokes every listener registered for the event at
\* the time of the emit exactly once, in registration order and with the
\* emitted argument, whether the listeners were registered with on() or
\* with once() (stated for listeners that do not emit themselves).
C24_EmitInvokesAll ==
    [][EmitCallOf(call') =>
         LET event == call'.args[1]
             registered == listeners[event]
         IN  (\A k \in 1..Len(registered) : registered[k].callback.name # "again") =>
                /\ Len(invoked') = Len(registered)
                /\ \A k \in 1..Len(registered) :
                      invoked'[k] = [event |-> event,
                                     listener |-> registered[k].callback,
                                     arg |-> call'.args[2]]]_vars

\* the listeners other than those of the callback, in their order
Others(array, callback) == SelectSeq(array, LAMBDA l : l.callback # callback)

\* C25: after off(event, handler) no later emit of the event invokes handler
\* (until it is registered again), however often on() had registered it;
\* the listeners of other handlers and of other events stay as they were.
C25_OffSilences ==
    [][/\ call'.op = "off" =>
            /\ \A event \in Events \ {call'.args[1]} :
                  listeners'[event] = listeners[event]
            /\ Others(listeners'[call'.args[1]], call'.args[2])
                  = Others(listeners[call'.args[1]], call'.args[2])
       /\ (call.op = "off" /\ EmitCallOf(call') /\ call'.args[1] = call.args[1]) =>
            \A k \in 1..Len(invoked') : invoked'[k].listener # call.args[2]]_vars

\* C26: a listener registered with once(event, callback) runs at most once
\* over all the emits that follow, an emit made from inside the callback
\* included, and once it has run it is no longer registered.
C26_OnceRunsOnce ==
    \A serial \in 1..Len(closures) :
        /\ closures[serial] <= 1
        /\ closures[serial] = 1 =>
              \A event \in Events : \A k \in 1..Len(listeners[event]) :
                  listeners[event][k].callback.serial # serial

\* a later emit of the event ran a listener, and not the closure that had run
C26_Witness ==
    /\ EmitCallOf(call) /\ call.args[1] = "move"
    /\ closures # <<>> /\ closures[1] = 1
    /\ invoked # <<>>
    /\ \A k \in 1..Len(invoked) : invoked[k].listener.serial # 1

\* the closure of "again" ran once, with the emit it made from inside
C26_WitnessInside ==
    /\ EmitCallOf(call)
    /\ Len(invoked) = 2
    /\ invoked[1].listener.name = "again" /\ invoked[1].listener.serial = 1
    /\ invoked[2].listener = Handler("f")
    /\ closures[1] = 1

Marks(b, m) == Cardinality({i \in Cells : b[i] = m})

\* C27: with players[0] holding X and players[1] holding O, in every state
\* reached from startGame by makeMove calls the number of X marks minus the
\* number of O marks is 0 or 1, and while the game is active
\* currentPlayerIndex is the number of marks modulo 2.
C27_MarkParity ==
    (players[0].symbol = "X" /\ players[1].symbol = "O") =>
        /\ Marks(board, "X") - Marks(board, "O") \in {0, 1}
        /\ gameActive =>
              currentPlayerIndex = (Marks(board, "X") + Marks(board, "O")) % 2

\* three accepted moves: X has one mark more and the second player is to move
C27_Witness ==
    /\ players[0].symbol = "X" /\ players[1].symbol = "O"
    /\ MoveCall /\ result.success /\ gameActive
    /\ Marks(board, "X") = 2 /\ Marks(board, "O") = 1
    /\ currentPlayerIndex = 1

\* C28: every game terminates: after startGame the game is still active
\* after fewer than 5 accepted moves and inactive after at most 9; no tenth
\* move is ever accepted; and if valid moves on empty cells keep being
\* submitted, the game reaches its terminal state.
C28_GameTerminates ==
    /\ [](Len(gameHistory) <= 9)
    /\ []((startTime # Null /\ Len(gameHistory) < 5) => gameActive)
    /\ [](Len(gameHistory) = 9 => ~gameActive)
    /\ [][(call'.op = "makeMove" /\ Len(gameHistory) = 9) => ~result'.success]_vars
    /\ (gameActive ~> (~gameActive /\ Finished(board)))

\* the ninth move was accepted and ended the game; a tenth was refused
C28_Witness ==
    /\ MoveCall /\ ~result.success
    /\ Len(gameHistory) = 9 /\ ~gameActive

\* C29: in every reachable state and for every index, validateMove(index)
\* answers valid exactly when makeMove(index), called in that state, is
\* accepted (success = true); validateMove changes nothing of the game or
\* of the board.
C29_ValidateAgreesWithMove ==
    [][/\ call'.op = "validateMove" =>
            /\ result'.returned
            /\ result'.value.valid <=> MakeMoveAccepts(call'.index)
            /\ UNCHANGED <<board, players, currentPlayerIndex, gameActive,
                           gameHistory, startTime, endTime>>
       /\ call'.op = "makeMove" =>
            (result'.success <=> MakeMoveAccepts(call'.index))
       /\ (call.op = "validateMove" /\ call'.op = "makeMove"
             /\ call'.index = call.index) =>
            (result'.success <=> result.value.valid)]_vars

\* validateMove found a free cell of a game in play valid
C29_Witness ==
    /\ call.op = "validateMove" /\ result.value.valid
    /\ gameActive /\ Len(gameHistory) = 2
    /\ board[call.index.v] = ""

\* validateMove refused an occupied cell
C29_WitnessOccupied ==
    /\ call.op = "validateMove" /\ ~result.value.valid
    /\ result.value.error = "Position already occupied"

\* the game reaches its terminal state in this step
GameEnds == gameActive /\ ~gameActive' /\ Finished(board')

\* C30: after any sequence of controller events (start game, cell clicks,
\* also after the end, new game, change players) gamesPlayed equals
\* player1Wins + player2Wins + ties, and each game that reaches a terminal
\* state is counted exactly once, by one increment of the statistics and
\* one entry of the controller's history; a game given up before its end by
\* new game or change players is not counted.
C30_StatisticsConsistent ==
    /\ [](/\ statistics.gamesPlayed
               = statistics.player1Wins + statistics.player2Wins + statistics.ties
          /\ Len(controllerHistory) = statistics.gamesPlayed)
    /\ [][LET counted == IF GameEnds THEN 1 ELSE 0
          IN  /\ statistics'.gamesPlayed = statistics.gamesPlayed + counted
              /\ statistics'.player1Wins + statistics'.player2Wins + statistics'.ties
                   = statistics.player1Wins + statistics.player2Wins
                     + statistics.ties + counted
              /\ Len(controllerHistory') = Len(controllerHistory) + counted
              /\ \A k \in 1..Len(controllerHistory) :
                    controllerHistory'[k] = controllerHistory[k]]_vars

\* two games were played to their end and counted, and a click after the
\* end of the second was ignored
C30_Witness ==
    /\ statistics.gamesPlayed = 2 /\ Len(controllerHistory) = 2
    /\ ~gameActive /\ Finished(board)
    /\ call.op = "isGameActive"

\* a game was given up by `new game` after one game had been counted
C30_WitnessAbandoned ==
    /\ statistics.gamesPlayed = 1
    /\ call.op = "restartGame" /\ gameActive

====
